---- MODULE Spec2Model ----
(***************************************************************************)
(* Model of scripts/convert_review_issues.py: review documents are split   *)
(* into issue files with YAML frontmatter.  Text is modelled as TLA+       *)
(* strings, read character by character with Len, SubSeq and \o; the       *)
(* regular expressions of the script are modelled by the matches that      *)
(* Python's re module computes for them (greedy, leftmost, backtracking).  *)
(***************************************************************************)
EXTENDS Integers, Sequences, FiniteSets, TLC

VARIABLES
    pc,             \* position of the running function
    source_exists,  \* SOURCE_DIR.exists()
    source_dir,     \* SOURCE_DIR: set of [name, text] files named *.md
    source_files,   \* main: sorted(SOURCE_DIR.glob("*.md"))
    dest,           \* DEST_ROOT: [dirs: set of category directories,
                    \*             files: category -> (file name -> content)]
    dest0,          \* DEST_ROOT as it was when main started (history)
    counters,       \* main: counters, category -> last sequence given
    all_issues,     \* main: all_issues
    idx,            \* loop position of main's for loops
    error,          \* exception that ended main, or "none"
    written,        \* history of write_issue calls
    arg,            \* argument of the function under test (function specifications)
    ret             \* its return value

vars == <<pc, source_exists, source_dir, source_files, dest, dest0, counters,
          all_issues, idx, error, written, arg, ret>>

mainVars == <<source_exists, source_dir, source_files, dest, dest0, counters,
              all_issues, idx, error, written>>

-----------------------------------------------------------------------------
(* Bounds of the model *)

MaxTitleLen == 4
MaxLines == 3
MaxValueLen == 3
MaxDocs == 4

-----------------------------------------------------------------------------
(* Characters and strings *)

\* s[a-1:b] of Python, for 1 <= a: the characters a..b that s has
Slice(s, a, b) ==
    IF a > b \/ a > Len(s) THEN ""
    ELSE SubSeq(s, a, IF b > Len(s) THEN Len(s) ELSE b)

At(s, i) == SubSeq(s, i, i)

LowerLetters == "abcdefghijklmnopqrstuvwxyz"
UpperLetters == "ABCDEFGHIJKLMNOPQRSTUVWXYZ"
Digits == "0123456789"

CharsOf(s) == {At(s, i) : i \in 1..Len(s)}

IndexIn(s, c) == CHOOSE i \in 1..Len(s) : At(s, i) = c

IsLower(c) == c \in CharsOf(LowerLetters)
IsUpper(c) == c \in CharsOf(UpperLetters)
IsDigit(c) == c \in CharsOf(Digits)
IsAlnum(c) == IsLower(c) \/ IsUpper(c) \/ IsDigit(c)

\* \s of the re module and the default of str.strip(), on the characters used here
IsSpace(c) == c \in {" ", "\n", "\t", "\r"}

StartsWith(s, p) == Len(p) <= Len(s) /\ Slice(s, 1, Len(p)) = p

EndsWithStr(s, p) == Len(p) <= Len(s) /\ Slice(s, Len(s) - Len(p) + 1, Len(s)) = p

\* first index >= i of s whose character is not white space (Len(s)+1 if none)
RECURSIVE SkipSpace(_, _)
SkipSpace(s, i) ==
    IF i <= Len(s) /\ IsSpace(At(s, i)) THEN SkipSpace(s, i + 1) ELSE i

\* last index <= i of s whose character is not white space (0 if none)
RECURSIVE SkipSpaceBack(_, _)
SkipSpaceBack(s, i) ==
    IF i >= 1 /\ IsSpace(At(s, i)) THEN SkipSpaceBack(s, i - 1) ELSE i

\* str.strip()
Strip(s) == Slice(s, SkipSpace(s, 1), SkipSpaceBack(s, Len(s)))

-----------------------------------------------------------------------------
(* sanitize_title *)

\* re.sub(r"[^A-Za-z0-9]+", "_", s): every maximal run of other characters
\* becomes one underscore
RECURSIVE ReplaceNonAlnumRuns(_, _)
ReplaceNonAlnumRuns(s, i) ==
    IF i > Len(s) THEN ""
    ELSE IF IsAlnum(At(s, i)) THEN At(s, i) \o ReplaceNonAlnumRuns(s, i + 1)
    ELSE IF i > 1 /\ ~IsAlnum(At(s, i - 1)) THEN ReplaceNonAlnumRuns(s, i + 1)
    ELSE "_" \o ReplaceNonAlnumRuns(s, i + 1)

\* re.sub(r"_+", "_", s)
RECURSIVE CollapseUnderscores(_, _)
CollapseUnderscores(s, i) ==
    IF i > Len(s) THEN ""
    ELSE IF At(s, i) = "_" /\ i > 1 /\ At(s, i - 1) = "_"
         THEN CollapseUnderscores(s, i + 1)
    ELSE At(s, i) \o CollapseUnderscores(s, i + 1)

RECURSIVE SkipUnderscore(_, _)
SkipUnderscore(s, i) ==
    IF i <= Len(s) /\ At(s, i) = "_" THEN SkipUnderscore(s, i + 1) ELSE i

RECURSIVE SkipUnderscoreBack(_, _)
SkipUnderscoreBack(s, i) ==
    IF i >= 1 /\ At(s, i) = "_" THEN SkipUnderscoreBack(s, i - 1) ELSE i

\* s.strip("_")
StripUnderscores(s) == Slice(s, SkipUnderscore(s, 1), SkipUnderscoreBack(s, Len(s)))

UpperChar(c) == IF IsLower(c) THEN At(UpperLetters, IndexIn(LowerLetters, c)) ELSE c

\* str.upper(), on ASCII text
RECURSIVE Upper(_)
Upper(s) == IF s = "" THEN "" ELSE UpperChar(At(s, 1)) \o Upper(Slice(s, 2, Len(s)))

\* faulty variant: the fallback for an empty result is left out
sanitize_title_nofallback(value) ==
    Upper(StripUnderscores(CollapseUnderscores(
        ReplaceNonAlnumRuns(Strip(value), 1), 1)))

sanitize_title(value) ==
    LET sanitized == Upper(StripUnderscores(CollapseUnderscores(
                         ReplaceNonAlnumRuns(Strip(value), 1), 1)))
    IN  IF sanitized = "" THEN "UNTITLED" ELSE sanitized

-----------------------------------------------------------------------------
(* parse_group *)

NoValue == <<>>
Some(v) == <<v>>

\* Path.stem of a file name that ends in ".md"
Stem(name) == Slice(name, 1, Len(name) - 3)

\* raised: the ValueError of line 80
parse_group(file_stem) ==
    IF EndsWithStr(file_stem, "_MONITORING")
    THEN [raised |-> FALSE,
          group |-> Slice(file_stem, 1, Len(file_stem) - Len("_MONITORING")),
          category |-> "monitoring"]
    ELSE IF EndsWithStr(file_stem, "_PERFORMANCE")
    THEN [raised |-> FALSE,
          group |-> Slice(file_stem, 1, Len(file_stem) - Len("_PERFORMANCE")),
          category |-> "performance"]
    ELSE [raised |-> TRUE, group |-> "", category |-> ""]

-----------------------------------------------------------------------------
(* The regular expressions of extract_issues *)

RECURSIVE SkipDigits(_, _)
SkipDigits(s, i) ==
    IF i <= Len(s) /\ IsDigit(At(s, i)) THEN SkipDigits(s, i + 1) ELSE i

RECURSIVE SkipNewlines(_, _)
SkipNewlines(s, i) ==
    IF i <= Len(s) /\ At(s, i) = "\n" THEN SkipNewlines(s, i + 1) ELSE i

\* first index >= i of s that holds a line break (Len(s)+1 if none): where
\* ".*" and "[^\n]+" stop
RECURSIVE LineEnd(_, _)
LineEnd(s, i) ==
    IF i <= Len(s) /\ At(s, i) # "\n" THEN LineEnd(s, i + 1) ELSE i

\* s.split("\n")
RECURSIVE Lines(_)
Lines(s) ==
    LET e == LineEnd(s, 1)
    IN  IF e > Len(s) THEN <<s>>
        ELSE <<Slice(s, 1, e - 1)>> \o Lines(Slice(s, e + 1, Len(s)))

\* "^" and "$" under re.MULTILINE
AtLineStart(s, i) == i = 1 \/ At(s, i - 1) = "\n"
AtLineEnd(s, i) == i = Len(s) + 1 \/ At(s, i) = "\n"

\* ISSUE_HEADING_PATTERN = ^###\s+(\d+)\.\s+(.*) with re.MULTILINE, matched at
\* index p.  \s, \d and "." share no character and ".*" matches the empty
\* string, so every greedy run is taken whole: no backtracking changes the
\* match.  \s+ runs over line breaks.  start, end: the match's span, end
\* exclusive.
HeadingMatchAt(text, p) ==
    LET a == SkipSpace(text, p + 3)
        b == SkipDigits(text, a)
        c == SkipSpace(text, b + 1)
        e == LineEnd(text, c)
    IN  IF /\ AtLineStart(text, p)
           /\ Slice(text, p, p + 2) = "###"
           /\ a > p + 3
           /\ b > a
           /\ b <= Len(text) /\ At(text, b) = "."
           /\ c > b + 1
        THEN [found |-> TRUE, start |-> p, end |-> e,
              group1 |-> Slice(text, a, b - 1), group2 |-> Slice(text, c, e - 1)]
        ELSE [found |-> FALSE, start |-> p, end |-> p, group1 |-> "", group2 |-> ""]

\* list(ISSUE_HEADING_PATTERN.finditer(text)), searching from index p
RECURSIVE HeadingMatches(_, _)
HeadingMatches(text, p) ==
    IF p > Len(text) THEN <<>>
    ELSE LET m == HeadingMatchAt(text, p)
         IN  IF m.found THEN <<m>> \o HeadingMatches(text, m.end)
             ELSE HeadingMatches(text, p + 1)

\* TRAILING_RULE_PATTERN = \n*---\s*$ with re.MULTILINE, matched at index p:
\* the index after the match, or 0 when there is none.  \n* is taken whole
\* (a shorter run is followed by a line break, not a hyphen); \s* is greedy
\* and gives characters back until "$" holds, at the end of the string or
\* before a line break.
RuleMatchEnd(s, p) ==
    LET n == SkipNewlines(s, p)
        q == n + 3
        w == SkipSpace(s, q)
        stops == {r \in q..w : AtLineEnd(s, r)}
    IN  IF n + 2 <= Len(s) /\ Slice(s, n, n + 2) = "---" /\ stops # {}
        THEN CHOOSE r \in stops : \A r2 \in stops : r2 <= r
        ELSE 0

\* TRAILING_RULE_PATTERN.sub("", s): every match, leftmost first, is removed
RECURSIVE TrailingRuleSub(_, _)
TrailingRuleSub(s, p) ==
    IF p > Len(s) THEN ""
    ELSE LET e == RuleMatchEnd(s, p)
         IN  IF e # 0 THEN TrailingRuleSub(s, e)
             ELSE At(s, p) \o TrailingRuleSub(s, p + 1)

IsPriorityLabel(s, p) ==
    \/ Slice(s, p, p + Len("**Priority:**") - 1) = "**Priority:**"
    \/ Slice(s, p, p + Len("**Severity:**") - 1) = "**Severity:**"

\* last index in q..hi of s whose character is not a line break (0 if none)
RECURSIVE LastNonNewline(_, _, _)
LastNonNewline(s, q, hi) ==
    IF hi < q THEN 0
    ELSE IF At(s, hi) # "\n" THEN hi
    ELSE LastNonNewline(s, q, hi - 1)

\* PRIORITY_PATTERN = \*\*(?:Priority|Severity):\*\*\s*([^\n]+), matched at
\* index p: group 1, or NoValue.  \s* is greedy; when it runs to the end of
\* the string it gives back characters until [^\n]+ has one to take.
PriorityMatchAt(s, p) ==
    LET q == p + Len("**Priority:**")
        w == SkipSpace(s, q)
        r == IF w <= Len(s) THEN w ELSE LastNonNewline(s, q, Len(s))
    IN  IF p + Len("**Priority:**") - 1 <= Len(s) /\ IsPriorityLabel(s, p) /\ r # 0
        THEN Some(Slice(s, r, LineEnd(s, r) - 1))
        ELSE NoValue

\* PRIORITY_PATTERN.search(s) from index p: group 1 of the first match
RECURSIVE PrioritySearch(_, _)
PrioritySearch(s, p) ==
    IF p > Len(s) THEN NoValue
    ELSE LET m == PriorityMatchAt(s, p)
         IN  IF m # NoValue THEN m ELSE PrioritySearch(s, p + 1)

\* int(s), s a run of decimal digits
RECURSIVE ParseInt(_)
ParseInt(s) ==
    IF s = "" THEN 0
    ELSE ParseInt(Slice(s, 1, Len(s) - 1)) * 10 + (IndexIn(Digits, At(s, Len(s))) - 1)

\* "\n".join(line for line in lines if line)
RECURSIVE JoinNonEmpty(_)
JoinNonEmpty(lines) ==
    IF lines = <<>> THEN ""
    ELSE LET rest == JoinNonEmpty(Tail(lines))
         IN  IF Head(lines) = "" THEN rest
             ELSE IF rest = "" THEN Head(lines)
             ELSE Head(lines) \o "\n" \o rest

-----------------------------------------------------------------------------
(* extract_issues *)

\* the Issue built by one pass of the loop of extract_issues
ExtractOne(source_name, text, matches, k, grp) ==
    LET match == matches[k]
        title == Strip(match.group2)
        start == match.end
        end == IF k + 1 <= Len(matches) THEN matches[k + 1].start ELSE Len(text) + 1
        section0 == Strip(Slice(text, start, end - 1))
        section == Strip(TrailingRuleSub(section0, 1))
        priority_match == PrioritySearch(section, 1)
        priority == IF priority_match # NoValue
                    THEN Some(Strip(priority_match[1])) ELSE NoValue
        body == JoinNonEmpty(<<"## " \o title, "", section>>) \o "\n"
    IN  [title |-> title,
         source_issue_index |-> ParseInt(match.group1),
         group |-> grp.group,
         category |-> grp.category,
         sequence |-> 0,
         source_path |-> source_name,
         body |-> body,
         priority |-> priority,
         status |-> "pending",
         extra_frontmatter |-> <<>>]

\* raised: parse_group raised its ValueError
extract_issues(source_file) ==
    LET text == source_file.text
        matches == HeadingMatches(text, 1)
        grp == parse_group(Stem(source_file.name))
    IN  IF matches = <<>> THEN [raised |-> FALSE, issues |-> <<>>]
        ELSE IF grp.raised THEN [raised |-> TRUE, issues |-> <<>>]
        ELSE [raised |-> FALSE,
              issues |-> [k \in 1..Len(matches) |->
                             ExtractOne(source_file.name, text, matches, k, grp)]]

-----------------------------------------------------------------------------
(* Issue.frontmatter_lines and Issue.document *)

\* str(n) for n >= 0
RECURSIVE ToStr(_)
ToStr(n) == IF n < 10 THEN At(Digits, n + 1) ELSE ToStr(n \div 10) \o At(Digits, (n % 10) + 1)

\* value.replace("\"", r"\"")
RECURSIVE EscapeQuotes(_)
EscapeQuotes(value) ==
    IF value = "" THEN ""
    ELSE (IF At(value, 1) = "\"" THEN "\\\"" ELSE At(value, 1))
             \o EscapeQuotes(Slice(value, 2, Len(value)))

HasKey(fields, key) == \E i \in 1..Len(fields) : fields[i][1] = key

\* dict.update on an insertion-ordered dict, fields and extra as sequences
\* of <<key, value>>: a key that is present keeps its place and takes the new
\* value, a new key goes to the end
RECURSIVE DictUpdate(_, _)
DictUpdate(fields, extra) ==
    IF extra = <<>> THEN fields
    ELSE LET kv == Head(extra)
             updated == IF HasKey(fields, kv[1])
                        THEN [i \in 1..Len(fields) |->
                                 IF fields[i][1] = kv[1] THEN kv ELSE fields[i]]
                        ELSE Append(fields, kv)
         IN  DictUpdate(updated, Tail(extra))

\* str(self.source_path.relative_to(ROOT)), the source files being those of
\* SOURCE_DIR = ROOT / "tasks" / "reviews"
RelativeSource(source_name) == "tasks/reviews/" \o source_name

frontmatter_lines(issue) ==
    LET fields == DictUpdate(
            << <<"title", issue.title>>,
               <<"group", issue.group>>,
               <<"category", issue.category>>,
               <<"priority", IF issue.priority = NoValue \/ issue.priority = Some("")
                             THEN "" ELSE issue.priority[1]>>,
               <<"status", issue.status>>,
               <<"source", RelativeSource(issue.source_path)>>,
               <<"issue_index", ToStr(issue.source_issue_index)>>,
               <<"sequence", ToStr(issue.sequence)>> >>,
            issue.extra_frontmatter)
    IN  <<"---">>
            \o [i \in 1..Len(fields) |->
                   fields[i][1] \o ": \"" \o EscapeQuotes(fields[i][2]) \o "\""]
            \o <<"---">>

\* "\n".join(lines)
RECURSIVE Join(_)
Join(lines) ==
    IF lines = <<>> THEN ""
    ELSE IF Len(lines) = 1 THEN Head(lines)
    ELSE Head(lines) \o "\n" \o Join(Tail(lines))

\* str.rstrip()
RStrip(s) == Slice(s, 1, SkipSpaceBack(s, Len(s)))

document(issue) ==
    Join(frontmatter_lines(issue)) \o "\n\n" \o RStrip(issue.body) \o "\n"

-----------------------------------------------------------------------------
(* Reading a metadata block: the YAML frontmatter the module docstring names. *)
(* Each line of the block is key: "value", the value a YAML double-quoted   *)
(* scalar: a backslash starts an escape, the first quote that is not escaped *)
(* ends the scalar, and nothing may follow it on the line.                   *)

\* the characters of the scalar that starts at index i of line l, after its
\* opening quote: [ok, value]
RECURSIVE ReadQuoted(_, _)
ReadQuoted(l, i) ==
    IF i > Len(l) THEN [ok |-> FALSE, value |-> ""]
    ELSE IF At(l, i) = "\"" THEN [ok |-> i = Len(l), value |-> ""]
    ELSE IF At(l, i) = "\\"
    THEN IF i + 1 > Len(l) THEN [ok |-> FALSE, value |-> ""]
         ELSE LET c == At(l, i + 1)
                  rest == ReadQuoted(l, i + 2)
              IN  IF c \in {"\"", "\\", "/"}
                  THEN [ok |-> rest.ok, value |-> c \o rest.value]
                  ELSE IF c = "n" THEN [ok |-> rest.ok, value |-> "\n" \o rest.value]
                  ELSE IF c = "t" THEN [ok |-> rest.ok, value |-> "\t" \o rest.value]
                  ELSE [ok |-> FALSE, value |-> ""]
    ELSE LET rest == ReadQuoted(l, i + 1)
         IN  [ok |-> rest.ok, value |-> At(l, i) \o rest.value]

\* index of the first ": " of line l (0 if none)
RECURSIVE KeyEnd(_, _)
KeyEnd(l, i) ==
    IF i + 1 > Len(l) THEN 0
    ELSE IF Slice(l, i, i + 1) = ": " THEN i
    ELSE KeyEnd(l, i + 1)

\* one line of the block: [ok, key, value]
ReadField(l) ==
    LET k == KeyEnd(l, 1)
        v == ReadQuoted(l, k + 3)
    IN  IF k > 1 /\ k + 2 <= Len(l) /\ At(l, k + 2) = "\""
        THEN [ok |-> v.ok, key |-> Slice(l, 1, k - 1), value |-> v.value]
        ELSE [ok |-> FALSE, key |-> "", value |-> ""]

\* index of the first "---" line of ls at or after i (0 if none)
RECURSIVE NextRule(_, _)
NextRule(ls, i) ==
    IF i > Len(ls) THEN 0
    ELSE IF ls[i] = "---" THEN i
    ELSE NextRule(ls, i + 1)

\* the block at the head of a document: [ok, fields], fields the fields read,
\* in order
ParseFrontmatter(doc) ==
    LET ls == Lines(doc)
        close == NextRule(ls, 2)
        fields == [i \in 1..(close - 2) |-> ReadField(ls[i + 1])]
    IN  IF Head(ls) = "---" /\ close # 0
        THEN [ok |-> \A i \in 1..Len(fields) : fields[i].ok, fields |-> fields]
        ELSE [ok |-> FALSE, fields |-> <<>>]

\* the value the block gives a key: that of its last field of that name
FieldOf(block, key) ==
    LET at == {i \in 1..Len(block.fields) : block.fields[i].key = key}
    IN  IF block.ok /\ at # {}
        THEN Some(block.fields[CHOOSE i \in at : \A j \in at : j <= i].value)
        ELSE NoValue

-----------------------------------------------------------------------------
(* ensure_destination_dirs, generate_filename, write_issue *)

Categories == {"monitoring", "performance"}

\* DEST_ROOT before anything was written under it
NoDest == [dirs |-> {}, files |-> [c \in Categories |-> <<>>]]

\* path.mkdir(parents=True, exist_ok=True) for both categories: a directory
\* that exists is left as it is
ensure_destination_dirs(d) == [d EXCEPT !.dirs = Categories]

\* f"{n:03d}"
Pad3(n) ==
    LET digits == ToStr(n)
    IN  IF Len(digits) >= 3 THEN digits ELSE Slice("000", 1, 3 - Len(digits)) \o digits

\* faulty variant: one counter is shared by all categories
generate_filename_shared(issue, cnt) ==
    LET sequence == cnt["monitoring"] + 1
    IN  [counters |-> [c \in Categories |-> sequence],
         issue |-> [issue EXCEPT !.sequence = sequence],
         base_name |-> Pad3(sequence) \o "_" \o issue.group \o "_"
                           \o sanitize_title(issue.title),
         filename |-> Pad3(sequence) \o "_" \o issue.group \o "_"
                          \o sanitize_title(issue.title) \o ".md"]

\* faulty variant: the sequence is not zero-padded in the name
generate_filename_unpadded(issue, cnt) ==
    LET sequence == cnt[issue.category] + 1
    IN  [counters |-> [cnt EXCEPT ![issue.category] = sequence],
         issue |-> [issue EXCEPT !.sequence = sequence],
         base_name |-> ToStr(sequence) \o "_" \o issue.group \o "_"
                           \o sanitize_title(issue.title),
         filename |-> ToStr(sequence) \o "_" \o issue.group \o "_"
                          \o sanitize_title(issue.title) \o ".md"]

\* cnt: category -> counter, 0 for a category counters has no key for
\* (counters.get(issue.category, 0)).  Returns the counters and the issue as
\* the call leaves them, and the two names.
generate_filename(issue, cnt) ==
    LET sequence == cnt[issue.category] + 1
        prefix == Pad3(sequence)
        title_part == sanitize_title(issue.title)
        base_name == prefix \o "_" \o issue.group \o "_" \o title_part
    IN  [counters |-> [cnt EXCEPT ![issue.category] = sequence],
         issue |-> [issue EXCEPT !.sequence = sequence],
         base_name |-> base_name,
         filename |-> base_name \o ".md"]

\* faulty variant: the candidate name is used whether or not it exists
TargetName_NoCheck(existing, base_name, filename, suffix) == filename

\* the while loop of write_issue: the first name, from filename on, that is
\* not in the directory
RECURSIVE TargetName(_, _, _, _)
TargetName(existing, base_name, filename, suffix) ==
    IF filename \in existing
    THEN TargetName(existing, base_name, base_name \o "_" \o ToStr(suffix) \o ".md",
                    suffix + 1)
    ELSE filename

\* target_path.write_text(content): the file is created or replaced
WriteText(dir, name, content) ==
    [n \in (DOMAIN dir) \cup {name} |-> IF n = name THEN content ELSE dir[n]]

\* the state write_issue leaves: [counters, issue, files, base_name, filename]
write_issue(issue, files, cnt) ==
    LET g == generate_filename(issue, cnt)
        dir == files[issue.category]
        target == TargetName(DOMAIN dir, g.base_name, g.filename, 1)
    IN  [counters |-> g.counters,
         issue |-> g.issue,
         files |-> [files EXCEPT ![issue.category] = WriteText(dir, target, document(g.issue))],
         base_name |-> g.base_name,
         filename |-> target]

-----------------------------------------------------------------------------
(* sorted(SOURCE_DIR.glob("*.md")) *)

\* the ASCII characters of the file names, in ascending order
AsciiOrder == " -.0123456789ABCDEFGHIJKLMNOPQRSTUVWXYZ_abcdefghijklmnopqrstuvwxyz"

\* a < b for str
RECURSIVE StrLess(_, _)
StrLess(a, b) ==
    IF b = "" THEN FALSE
    ELSE IF a = "" THEN TRUE
    ELSE IF At(a, 1) = At(b, 1) THEN StrLess(Slice(a, 2, Len(a)), Slice(b, 2, Len(b)))
    ELSE IndexIn(AsciiOrder, At(a, 1)) < IndexIn(AsciiOrder, At(b, 1))

\* the files of a directory in ascending order of their names
RECURSIVE SortedFiles(_)
SortedFiles(files) ==
    IF files = {} THEN <<>>
    ELSE LET first == CHOOSE f \in files :
                          \A g \in files \ {f} : StrLess(f.name, g.name)
         IN  <<first>> \o SortedFiles(files \ {first})

-----------------------------------------------------------------------------
(* main *)

NoCounters == [c \in Categories |-> 0]

\* faulty variant: the destination directories are made before the source is looked for
MainMissingSource_DirsFirst ==
    /\ pc = "main"
    /\ ~source_exists
    /\ dest' = ensure_destination_dirs(dest)
    /\ pc' = "failed"
    /\ error' = "FileNotFoundError"
    /\ UNCHANGED <<source_exists, source_dir, source_files, dest0, counters,
                   all_issues, idx, written, arg, ret>>

\* lines 162-163: the source directory is missing
MainMissingSource ==
    /\ pc = "main"
    /\ ~source_exists
    /\ pc' = "failed"
    /\ error' = "FileNotFoundError"
    /\ UNCHANGED <<source_exists, source_dir, source_files, dest, dest0, counters,
                   all_issues, idx, written, arg, ret>>

\* lines 165-169
MainSetup ==
    /\ pc = "main"
    /\ source_exists
    /\ dest' = ensure_destination_dirs(dest)
    /\ counters' = NoCounters
    /\ source_files' = SortedFiles(source_dir)
    /\ all_issues' = <<>>
    /\ idx' = 1
    /\ pc' = "extract"
    /\ UNCHANGED <<source_exists, source_dir, dest0, error, written, arg, ret>>

\* lines 171-173, one pass of the loop
ExtractSource ==
    /\ pc = "extract"
    /\ idx <= Len(source_files)
    /\ LET extracted == extract_issues(source_files[idx])
       IN  /\ ~extracted.raised
           /\ all_issues' = all_issues \o extracted.issues
    /\ idx' = idx + 1
    /\ UNCHANGED <<pc, source_exists, source_dir, source_files, dest, dest0, counters,
                   error, written, arg, ret>>

\* line 172 when extract_issues raises: nothing catches the ValueError
ExtractRaises ==
    /\ pc = "extract"
    /\ idx <= Len(source_files)
    /\ extract_issues(source_files[idx]).raised
    /\ pc' = "failed"
    /\ error' = "ValueError"
    /\ UNCHANGED <<source_exists, source_dir, source_files, dest, dest0, counters,
                   all_issues, idx, written, arg, ret>>

\* the first loop is over, the second begins
ExtractDone ==
    /\ pc = "extract"
    /\ idx > Len(source_files)
    /\ pc' = "write"
    /\ idx' = 1
    /\ UNCHANGED <<source_exists, source_dir, source_files, dest, dest0, counters,
                   all_issues, error, written, arg, ret>>

\* lines 175-177, one pass of the loop
WriteIssue ==
    /\ pc = "write"
    /\ idx <= Len(all_issues)
    /\ LET w == write_issue(all_issues[idx], dest.files, counters)
       IN  /\ counters' = w.counters
           /\ all_issues' = [all_issues EXCEPT ![idx] = w.issue]
           /\ dest' = [dest EXCEPT !.files = w.files]
           /\ written' = Append(written,
                  [category |-> w.issue.category, base_name |-> w.base_name,
                   filename |-> w.filename, before |-> dest.files, after |-> w.files])
    /\ idx' = idx + 1
    /\ UNCHANGED <<pc, source_exists, source_dir, source_files, dest0, error, arg, ret>>

\* main returns
MainReturn ==
    /\ pc = "write"
    /\ idx > Len(all_issues)
    /\ pc' = "done"
    /\ UNCHANGED <<source_exists, source_dir, source_files, dest, dest0, counters,
                   all_issues, idx, error, written, arg, ret>>

-----------------------------------------------------------------------------
(* Bounded inputs *)

\* all strings of at most n characters of the alphabet (a string)
RECURSIVE StringsUpTo(_, _)
StringsUpTo(alphabet, n) ==
    IF n = 0 THEN {""}
    ELSE LET shorter == StringsUpTo(alphabet, n - 1)
         IN  shorter \cup {s \o c : s \in shorter, c \in CharsOf(alphabet)}

TitleAlphabet == "aZ7_ -"

Titles ==
    StringsUpTo(TitleAlphabet, MaxTitleLen)
        \cup {"Untitled", " untitled!", "Leak", "Memory leak (v2)", "__init__", "!?"}

\* the values the variables of main keep in the specifications of single functions
IdleMain ==
    /\ source_exists = FALSE
    /\ source_dir = {}
    /\ source_files = <<>>
    /\ dest = NoDest
    /\ dest0 = NoDest
    /\ counters = NoCounters
    /\ all_issues = <<>>
    /\ idx = 0
    /\ error = "none"
    /\ written = <<>>

-----------------------------------------------------------------------------
(* Specification of main *)

DocPool ==
    {[name |-> "AUTH_PERFORMANCE.md", text |-> "Intro.\n\n### 9. Slow\n"],
     [name |-> "DB_MONITORING.md", text |-> "# DB review\n\n### 4. Leak\nPool leak.\n\n---\n"],
     [name |-> "GATEWAY_PERFORMANCE.md",
      text |-> "### 1. Slow\n**Severity:** Low\n\n### 2. Leak\n"],
     [name |-> "INFRA_MONITORING.md",
      text |-> "### 1. Leak\nLeak details.\n\n### 2. Timeout\n**Priority:** High\n"],
     [name |-> "NOTES_UNKNOWN.md", text |-> "No numbered headings.\n"],
     [name |-> "OPS_UNKNOWN.md", text |-> "### 1. Oops\n"]}

\* files an earlier run may have left in the destination
OldMonitoring == {"001_INFRA_LEAK.md", "001_INFRA_LEAK_1.md"}
OldPerformance == {"001_GATEWAY_SLOW.md"}

OldContent == "old\n"

Destinations ==
    {NoDest} \cup
    {[dirs |-> Categories,
      files |-> [c \in Categories |->
                    [n \in (IF c = "monitoring" THEN m ELSE p) |-> OldContent]]] :
         m \in SUBSET OldMonitoring, p \in SUBSET OldPerformance}

Init ==
    /\ pc = "main"
    /\ source_exists \in BOOLEAN
    /\ source_dir \in {d \in SUBSET DocPool : Cardinality(d) <= MaxDocs}
    /\ (~source_exists => source_dir = {})
    /\ source_files = <<>>
    /\ dest \in Destinations
    /\ dest0 = dest
    /\ counters = NoCounters
    /\ all_issues = <<>>
    /\ idx = 0
    /\ error = "none"
    /\ written = <<>>
    /\ arg = ""
    /\ ret = ""

Next ==
    \/ MainMissingSource
    \/ MainSetup
    \/ ExtractSource
    \/ ExtractRaises
    \/ ExtractDone
    \/ WriteIssue
    \/ MainReturn

Spec == Init /\ [][Next]_vars

\* the number of issues write_issue has been called for
WrittenCount ==
    IF pc = "write" THEN idx - 1 ELSE IF pc = "done" THEN Len(all_issues) ELSE 0

\* the first n issues of all_issues that are of category c, in order
IssuesOf(c, n) ==
    LET InCategory(issue) == issue.category = c
    IN  SelectSeq(SubSeq(all_issues, 1, n), InCategory)

\* C1: at every point of main, the issues of one category that have been
\* given a sequence hold 1, 2, ..., n in the order of processing, the
\* category's counter is n, and no other issue has a sequence yet; so when
\* main is done each category holds exactly 1..N, without gap or duplicate.
C1_ContiguousSequences ==
    /\ \A c \in Categories :
           LET s == IssuesOf(c, WrittenCount)
           IN  /\ \A k \in 1..Len(s) : s[k].sequence = k
               /\ counters[c] = Len(s)
    /\ \A i \in (WrittenCount + 1)..Len(all_issues) : all_issues[i].sequence = 0

C1_Witness ==
    /\ pc = "done"
    /\ \E i, j \in 1..Len(all_issues) :
           /\ i < j
           /\ all_issues[i].category = "performance" /\ all_issues[i].sequence = 3
           /\ all_issues[j].category = "monitoring" /\ all_issues[j].sequence = 3
           /\ all_issues[j].source_issue_index = 2

\* C2: every call of write_issue leaves each file that existed with its
\* content, creates exactly one file, in the directory of the issue's
\* category, and names it <base>.md when that name is free and otherwise
\* <base>_k.md for the smallest k >= 1 whose name is free.
C2_NoOverwrite ==
    \A i \in 1..Len(written) :
        LET w == written[i]
            old == w.before[w.category]
            new == w.after[w.category]
            Suffixed(k) == w.base_name \o "_" \o ToStr(k) \o ".md"
        IN  /\ \A c \in Categories \ {w.category} : w.after[c] = w.before[c]
            /\ \A n \in DOMAIN old : n \in DOMAIN new /\ new[n] = old[n]
            /\ (DOMAIN new) \ (DOMAIN old) = {w.filename}
            /\ IF (w.base_name \o ".md") \notin DOMAIN old
               THEN w.filename = w.base_name \o ".md"
               ELSE \E k \in 1..(Cardinality(DOMAIN old) + 1) :
                        /\ w.filename = Suffixed(k)
                        /\ \A j \in 1..(k - 1) : Suffixed(j) \in DOMAIN old

C2_Witness ==
    \E i \in 1..Len(written) :
        /\ written[i].filename = "001_INFRA_LEAK_2.md"
        /\ written[i].before["monitoring"]["001_INFRA_LEAK.md"] = OldContent
        /\ dest.files["monitoring"]["001_INFRA_LEAK.md"] = OldContent
        /\ dest.files["monitoring"]["001_INFRA_LEAK_1.md"] = OldContent

Recognized(name) ==
    EndsWithStr(Stem(name), "_MONITORING") \/ EndsWithStr(Stem(name), "_PERFORMANCE")

\* the number of source documents the first loop of main has passed
ExtractedCount ==
    IF pc = "extract" THEN idx - 1
    ELSE IF pc \in {"write", "done"} THEN Len(source_files)
    ELSE 0

\* C3 as stated: a source document whose base name ends in neither
\* _MONITORING nor _PERFORMANCE always fails classification, whatever its
\* text: main never gets past such a document.
C3_UnrecognizedAlwaysFails ==
    \A i \in 1..ExtractedCount : Recognized(source_files[i].name)

\* the number a file name starts with
FileNumber(name) == ParseInt(Slice(name, 1, SkipDigits(name, 1) - 1))

AllFiles(d) == UNION {{<<c, n>> : n \in DOMAIN d.files[c]} : c \in Categories}

\* C4: when main is done over a destination that was empty, there are as
\* many files as issues, each issue has its file in the directory of its
\* category, named with its sequence in at least three digits (padded with
\* zeros), the group and the sanitized title, and the sequence in the file's
\* metadata is the number of the file name; INFRA_MONITORING.md alone gives exactly
\* monitoring/001_INFRA_LEAK.md (sequence 1, no priority) and
\* monitoring/002_INFRA_TIMEOUT.md (sequence 2, priority High).
C4_OneFilePerIssue ==
    (pc = "done" /\ AllFiles(dest0) = {}) =>
        /\ Cardinality(AllFiles(dest)) = Len(all_issues)
        /\ \A i \in 1..Len(all_issues) :
               LET issue == all_issues[i]
               IN  \E n \in DOMAIN dest.files[issue.category] :
                       /\ SkipDigits(n, 1) >= 4
                       /\ (SkipDigits(n, 1) > 4 => At(n, 1) # "0")
                       /\ FileNumber(n) = issue.sequence
                       /\ Slice(n, SkipDigits(n, 1), Len(n))
                              = "_" \o issue.group \o "_" \o sanitize_title(issue.title) \o ".md"
                       /\ FieldOf(ParseFrontmatter(dest.files[issue.category][n]), "sequence")
                              = Some(ToStr(FileNumber(n)))
        /\ ({f.name : f \in source_dir} = {"INFRA_MONITORING.md"} =>
               LET m == dest.files["monitoring"]
               IN  /\ DOMAIN m = {"001_INFRA_LEAK.md", "002_INFRA_TIMEOUT.md"}
                   /\ DOMAIN dest.files["performance"] = {}
                   /\ FieldOf(ParseFrontmatter(m["001_INFRA_LEAK.md"]), "sequence") = Some("1")
                   /\ FieldOf(ParseFrontmatter(m["001_INFRA_LEAK.md"]), "priority") = Some("")
                   /\ FieldOf(ParseFrontmatter(m["002_INFRA_TIMEOUT.md"]), "sequence") = Some("2")
                   /\ FieldOf(ParseFrontmatter(m["002_INFRA_TIMEOUT.md"]), "priority")
                          = Some("High"))

C4_Witness ==
    /\ pc = "done"
    /\ AllFiles(dest0) = {}
    /\ {f.name : f \in source_dir} = {"INFRA_MONITORING.md"}
    /\ Len(all_issues) = 2
    /\ "002_INFRA_TIMEOUT.md" \in DOMAIN dest.files["monitoring"]

\* C10: no file is written and no issue is numbered until every source
\* document has been extracted without an error, so a run that fails has
\* written nothing, whatever the documents before the failing one held; and
\* a run that fails for its missing source directory has not touched the
\* destination, its directories included.
C10_ExtractBeforeWrite ==
    /\ (pc \in {"main", "extract", "failed"} =>
            /\ written = <<>>
            /\ dest.files = dest0.files)
    /\ (written # <<>> =>
            /\ ExtractedCount = Len(source_files)
            /\ \A i \in 1..Len(source_files) : ~extract_issues(source_files[i]).raised)
    /\ (error = "FileNotFoundError" => dest = dest0)

C10_Witness ==
    /\ pc = "failed"
    /\ error = "ValueError"
    /\ Len(all_issues) >= 3
    /\ dest.dirs = Categories
    /\ dest0.dirs = {}

-----------------------------------------------------------------------------
(* Specification of sanitize_title alone *)

InitSanitize ==
    /\ IdleMain
    /\ pc = "call"
    /\ arg \in Titles
    /\ ret = ""

CallSanitize ==
    /\ pc = "call"
    /\ ret' = sanitize_title(arg)
    /\ pc' = "returned"
    /\ UNCHANGED <<arg, mainVars>>

NextSanitize == CallSanitize

SpecSanitize == InitSanitize /\ [][NextSanitize]_vars

HasAlnum(s) == \E i \in 1..Len(s) : IsAlnum(At(s, i))

\* the letters and digits of s, in order
RECURSIVE AlnumOf(_)
AlnumOf(s) ==
    IF s = "" THEN ""
    ELSE (IF IsAlnum(At(s, 1)) THEN At(s, 1) ELSE "") \o AlnumOf(Slice(s, 2, Len(s)))

WellFormedIdentifier(s) ==
    /\ s # ""
    /\ \A i \in 1..Len(s) : IsUpper(At(s, i)) \/ IsDigit(At(s, i)) \/ At(s, i) = "_"
    /\ \A i \in 1..(Len(s) - 1) : ~(At(s, i) = "_" /\ At(s, i + 1) = "_")
    /\ At(s, 1) # "_"
    /\ At(s, Len(s)) # "_"

-----------------------------------------------------------------------------
(* Specification of extract_issues alone *)

LinePool ==
    {"### 1. Leak", "### 2. Timeout", "### 3.", "### 3. ", "foo", "---", "----",
     "foo---", "", "**Priority:** High"}

\* the texts of at most n lines of the pool
RECURSIVE TextsUpTo(_)
TextsUpTo(n) ==
    IF n = 1 THEN LinePool
    ELSE LET shorter == TextsUpTo(n - 1)
         IN  shorter \cup {t \o "\n" \o l : t \in shorter, l \in LinePool}

InitExtract ==
    /\ IdleMain
    /\ pc = "call"
    /\ arg \in [name : {"INFRA_MONITORING.md", "X_UNKNOWN.md"}, text : TextsUpTo(MaxLines)]
    /\ ret = [raised |-> FALSE, issues |-> <<>>]

CallExtract ==
    /\ pc = "call"
    /\ ret' = extract_issues(arg)
    /\ pc' = "returned"
    /\ UNCHANGED <<arg, mainVars>>

NextExtract == CallExtract

SpecExtract == InitExtract /\ [][NextExtract]_vars

\* a numbered level-3 heading line: "###", blanks, a number, a period, and
\* then the end of the line or a blank before the title
IsHeadingLine(l) ==
    LET a == SkipSpace(l, 4)
        b == SkipDigits(l, a)
    IN  /\ StartsWith(l, "###")
        /\ a > 4
        /\ b > a
        /\ b <= Len(l) /\ At(l, b) = "."
        /\ (b = Len(l) \/ IsSpace(At(l, b + 1)))

\* the title text of a heading line
HeadingLineTitle(l) == Strip(Slice(l, SkipDigits(l, SkipSpace(l, 4)) + 1, Len(l)))

HeadingLinesOf(text) == SelectSeq(Lines(text), IsHeadingLine)

\* C7 as stated: every issue's body is a level-2 heading repeating the title,
\* then a blank line, then the trimmed span; with an empty span it is the
\* heading alone; no line of the body is a numbered level-3 heading line.
C7_BodyLayout ==
    pc = "returned" =>
        \A k \in 1..Len(ret.issues) :
            LET issue == ret.issues[k]
                heading == "## " \o issue.title
            IN  /\ \/ issue.body = heading \o "\n"
                   \/ /\ StartsWith(issue.body, heading \o "\n\n")
                      /\ Len(issue.body) > Len(heading) + 2
                      /\ ~IsSpace(At(issue.body, Len(heading) + 3))
                /\ \A i \in 1..Len(Lines(issue.body)) : ~IsHeadingLine(Lines(issue.body)[i])

\* C8 as stated: every numbered level-3 heading line gives one issue, in
\* order, with that line's title (empty for a heading with no title text).
C8_OneIssuePerHeading ==
    (pc = "returned" /\ ~ret.raised /\ arg.name = "INFRA_MONITORING.md") =>
        LET headings == HeadingLinesOf(arg.text)
        IN  /\ Len(ret.issues) = Len(headings)
            /\ \A k \in 1..Len(headings) :
                   ret.issues[k].title = HeadingLineTitle(headings[k])

IsBlankLine(l) == Strip(l) = ""

IsRuleLine(l) == Len(l) >= 3 /\ \A i \in 1..Len(l) : At(l, i) = "-"

RECURSIVE DropBlankHead(_)
DropBlankHead(ls) ==
    IF ls # <<>> /\ IsBlankLine(Head(ls)) THEN DropBlankHead(Tail(ls)) ELSE ls

RECURSIVE DropBlankTail(_)
DropBlankTail(ls) ==
    IF ls # <<>> /\ IsBlankLine(ls[Len(ls)])
    THEN DropBlankTail(SubSeq(ls, 1, Len(ls) - 1)) ELSE ls

\* the lines of a span with the surrounding blank lines and then a rule at the
\* end (a final line of three or more hyphens, and the blank lines before it)
\* taken off
TrimmedSpanLines(ls) ==
    LET t == DropBlankTail(DropBlankHead(ls))
    IN  IF t # <<>> /\ IsRuleLine(t[Len(t)])
        THEN DropBlankHead(DropBlankTail(SubSeq(t, 1, Len(t) - 1)))
        ELSE t

\* C9 as stated, for a document that is one heading line followed by its
\* span: the lines of the body after its heading are the lines of the span
\* with only a rule at the end taken off; every other line is kept unchanged.
C9_OnlyTrailingRule ==
    (/\ pc = "returned"
     /\ arg.name = "INFRA_MONITORING.md"
     /\ Len(HeadingLinesOf(arg.text)) = 1
     /\ Head(Lines(arg.text)) = "### 1. Leak") =>
        /\ Len(ret.issues) = 1
        /\ DropBlankTail(DropBlankHead(Tail(Lines(ret.issues[1].body))))
               = TrimmedSpanLines(Tail(Lines(arg.text)))

-----------------------------------------------------------------------------
(* Specification of Issue.document alone *)

ValueAlphabet == "Z\"\\ "

\* titles and priorities as extract_issues leaves them: stripped
Values == {Strip(v) : v \in StringsUpTo(ValueAlphabet, MaxValueLen)}

InitSerialize ==
    /\ IdleMain
    /\ pc = "call"
    /\ \E title \in Values \cup {"Leak"} :
       \E priority \in {NoValue} \cup {Some(v) : v \in (Values \ {""}) \cup {"High"}} :
       \E category \in {"monitoring", "performance"} :
       \E extra \in {<<>>, << <<"owner", "ops">> >>} :
           arg = [title |-> title,
                  source_issue_index |-> 12,
                  group |-> "INFRA",
                  category |-> category,
                  sequence |-> 3,
                  source_path |-> "INFRA_MONITORING.md",
                  body |-> "## " \o title \o "\n",
                  priority |-> priority,
                  status |-> "pending",
                  extra_frontmatter |-> extra]
    /\ ret = ""

CallDocument ==
    /\ pc = "call"
    /\ ret' = document(arg)
    /\ pc' = "returned"
    /\ UNCHANGED <<arg, mainVars>>

NextSerialize == CallDocument

SpecSerialize == InitSerialize /\ [][NextSerialize]_vars

\* C5 as stated: reading the metadata block of the document of an Issue
\* gives back the title, category, priority (empty for an absent priority),
\* sequence and issue_index of the Issue.
C5_RoundTrip ==
    pc = "returned" =>
        LET block == ParseFrontmatter(ret)
        IN  /\ block.ok
            /\ FieldOf(block, "title") = Some(arg.title)
            /\ FieldOf(block, "category") = Some(arg.category)
            /\ FieldOf(block, "priority")
                   = (IF arg.priority = NoValue THEN Some("") ELSE arg.priority)
            /\ FieldOf(block, "sequence") = Some(ToStr(arg.sequence))
            /\ FieldOf(block, "issue_index") = Some(ToStr(arg.source_issue_index))

====
